---------------------------- MODULE Spec2Model ----------------------------
(***************************************************************************)
(* Model of src/anthropic-function.py: the Anthropic manifold pipe          *)
(* (class Pipe): model-identifier resolution, image validation, message     *)
(* normalisation, payload construction, and the streaming / non-streaming   *)
(* response parsers.                                                        *)
(*                                                                          *)
(* Conventions.                                                             *)
(*  - A Python str whose characters matter is a sequence of one-character   *)
(*    strings (<<"v", ".", "m">>).  A long str (a base64 payload) is a      *)
(*    run-length sequence of runs [c |-> token, n |-> count]: the payload   *)
(*    "AAAA" is <<[c |-> "A", n |-> 4]>>.                                   *)
(*  - A text built by an f-string is the record Msg(fmt, code, text): the   *)
(*    format, its integer argument and its text argument.                   *)
(*  - A dict is a record with a field "keys": the keys that are present.    *)
(***************************************************************************)
EXTENDS Integers, Sequences, FiniteSets, TLC

VARIABLES
    apiKey,        \* self.valves.ANTHROPIC_API_KEY
    body,          \* the request of the current call of pipe
    remote,        \* what the messages endpoint answers to the POST of this call
    result,        \* what the call returned (or raised)
    netlog,        \* the network calls made so far in this call, in order
    payload,       \* the JSON body of the POST, once sent
    gen,           \* the generator stream_response returned: position, connection
    emitted,       \* the fragments the generator has yielded so far, in order
    model_string,  \* argument of the last call of _extract_model_id
    model_id,      \* its outcome
    image_data,    \* argument of the last call of process_image
    image_block,   \* its outcome
    self_attrs,    \* the attributes of the Pipe object that calls share
    calls          \* two calls of pipe in progress on that object: their locals

vars == <<apiKey, body, remote, result, netlog, payload, gen, emitted,
          model_string, model_id, image_data, image_block, self_attrs, calls>>

---------------------------------------------------------------------------
(* Bounds of the model.                                                    *)

MaxModelLen == 4     \* longest model string given to _extract_model_id
MaxFeedLen == 3      \* most lines in a streamed feed
MaxBlocks == 3       \* most blocks in the content list of a buffered response
MaxItems == 2        \* most items after the bulk prefix of a structured content
MaxBulk == 20        \* copies of the largest valid inline image in a bulk prefix

---------------------------------------------------------------------------
(* Python helpers.                                                         *)

\* The first index of token c in sequence s, 0 when absent (str.find + 1).
IndexOf(s, c) ==
    IF \E i \in 1..Len(s) : s[i] = c
    THEN CHOOSE i \in 1..Len(s) : s[i] = c /\ \A j \in 1..(i - 1) : s[j] # c
    ELSE 0

\* s.split(c, 1): one part when c is absent, else the parts around the first c.
SplitOnce(s, c) ==
    LET i == IndexOf(s, c)
    IN  IF i = 0 THEN <<s>>
        ELSE <<SubSeq(s, 1, i - 1), SubSeq(s, i + 1, Len(s))>>

\* A text built from a format: f"Error: HTTP {code}: {text}".
Msg(fmt, code, text) == [fmt |-> fmt, code |-> code, text |-> text]

---------------------------------------------------------------------------
(* Pipe._extract_model_id                                                  *)

ModelChars == {".", "a", "b"}

ModelStrings == UNION {[1..n -> ModelChars] : n \in 0..MaxModelLen}

NoModel == [ok |-> FALSE, exc |-> "none", val |-> <<>>]

\* A plausible slip: the part after the LAST "." instead of the first.
extract_model_id_last(s) ==
    IF s = <<>> THEN [ok |-> FALSE, exc |-> "ValueError", val |-> <<>>]
    ELSE IF IndexOf(s, ".") # 0
         THEN LET i == CHOOSE k \in 1..Len(s) :
                           s[k] = "." /\ \A j \in (k + 1)..Len(s) : s[j] # "."
              IN  [ok |-> TRUE, exc |-> "none", val |-> SubSeq(s, i + 1, Len(s))]
         ELSE [ok |-> TRUE, exc |-> "none", val |-> s]

\* _extract_model_id(model_string): raises ValueError on the empty string,
\* returns split(".", 1)[1] when "." occurs, else the string itself.
extract_model_id(s) ==
    IF s = <<>> THEN [ok |-> FALSE, exc |-> "ValueError", val |-> <<>>]
    ELSE IF IndexOf(s, ".") # 0
         THEN [ok |-> TRUE, exc |-> "none", val |-> SplitOnce(s, ".")[2]]
         ELSE [ok |-> TRUE, exc |-> "none", val |-> s]

---------------------------------------------------------------------------
(* Pipe.process_image                                                      *)

MAX_IMAGE_SIZE == 5 * 1024 * 1024
MAX_TOTAL_IMAGE_SIZE == 100 * 1024 * 1024

\* A run of n copies of token c.
Run(c, n) == [c |-> c, n |-> n]

\* len() of a run-length string.
RECURSIVE RunLen(_)
RunLen(s) == IF s = <<>> THEN 0 ELSE Head(s).n + RunLen(Tail(s))

\* The index of the first run of token c, 0 when absent.
RunIndex(s, c) ==
    IF \E i \in 1..Len(s) : s[i].c = c
    THEN CHOOSE i \in 1..Len(s) : s[i].c = c /\ \A j \in 1..(i - 1) : s[j].c # c
    ELSE 0

\* url.split(",", 1) on a run-length string whose "," runs have length 1.
SplitComma(s) ==
    LET i == RunIndex(s, ",")
    IN  IF i = 0 THEN <<s>>
        ELSE <<SubSeq(s, 1, i - 1), SubSeq(s, i + 1, Len(s))>>

\* The heads of the data URIs of the model, and what
\* mime_type.split(":")[1].split(";")[0] makes of each.
DataHeads == {"data:image/png;base64", "data:image/jpeg;base64"}

MediaTypeOf(head) ==
    IF head = "data:image/png;base64" THEN "image/png" ELSE "image/jpeg"

\* url.startswith("data:image")
IsDataImage(url) == url # <<>> /\ url[1].c \in DataHeads

\* The remote image URLs of the model and what requests.head answers for each:
\* a RequestException, or a response with its content-length header.
RemoteUrls == {"https://img/small", "https://img/atlimit", "https://img/large",
               "https://img/nolength", "https://img/badlength",
               "https://img/timeout"}

HeadOf(u) ==
    CASE u = "https://img/small" ->
           [exc |-> "none", hasLength |-> TRUE, numeric |-> TRUE, length |-> 1000]
      [] u = "https://img/atlimit" ->
           [exc |-> "none", hasLength |-> TRUE, numeric |-> TRUE,
            length |-> MAX_IMAGE_SIZE]
      [] u = "https://img/large" ->
           [exc |-> "none", hasLength |-> TRUE, numeric |-> TRUE,
            length |-> MAX_IMAGE_SIZE + 1]
      [] u = "https://img/nolength" ->
           [exc |-> "none", hasLength |-> FALSE, numeric |-> TRUE, length |-> 0]
      [] u = "https://img/badlength" ->
           [exc |-> "none", hasLength |-> TRUE, numeric |-> FALSE, length |-> 0]
      [] OTHER ->
           [exc |-> "RequestException", hasLength |-> FALSE, numeric |-> TRUE,
            length |-> 0]

\* Content blocks of the payload: text blocks and image blocks.
NoSource == [type |-> "none", media_type |-> "", data |-> <<>>, url |-> <<>>]

TextBlock(t) == [type |-> "text", text |-> t, source |-> NoSource]

ImageBlock(src) == [type |-> "image", text |-> "", source |-> src]

NoBlock == [type |-> "none", text |-> "", source |-> NoSource]

\* The outcome of process_image: the block returned, or the exception raised
\* (with its message), and the network calls made on the way.
ImageOk(block, net) ==
    [ok |-> TRUE, exc |-> "none", msg |-> "", block |-> block, net |-> net]

ImageRaises(exc, msg, net) ==
    [ok |-> FALSE, exc |-> exc, msg |-> msg, block |-> NoBlock, net |-> net]

NoImage == ImageRaises("none", "", <<>>)

\* A plausible slip: the size test compares the base64 length itself with the
\* limit, without the 3/4 factor.
inline_too_large_raw(base64_data) == RunLen(base64_data) > MAX_IMAGE_SIZE

\* image_size = len(base64_data) * 3 / 4; image_size > self.MAX_IMAGE_SIZE
\* (a float comparison, exact here: quarters of integers below 2^53).
inline_too_large(base64_data) == RunLen(base64_data) * 3 > MAX_IMAGE_SIZE * 4

\* mime_type, base64_data = url.split(",", 1)
inline_parts(url) == SplitComma(url)

\* Lines 93-106, with the two parts of the split at hand.
inline_block(parts) ==
    IF Len(parts) # 2
    THEN ImageRaises("ValueError", "not enough values to unpack", <<>>)
    ELSE IF inline_too_large(parts[2])
    THEN ImageRaises("ValueError", "Image size exceeds 5MB limit", <<>>)
    ELSE ImageOk(ImageBlock([type |-> "base64",
                             media_type |-> MediaTypeOf(parts[1][1].c),
                             data |-> parts[2], url |-> <<>>]), <<>>)

\* The data branch of process_image (lines 87-106).
process_inline(url) == inline_block(inline_parts(url))

\* Lines 111-124, with the answer to the HEAD probe at hand: a
\* RequestException is logged and swallowed, int() of a non-numeric header
\* raises ValueError, a missing header counts as 0.
remote_block(url, head) ==
    IF head.exc # "none"
    THEN ImageOk(ImageBlock([type |-> "url", media_type |-> "", data |-> <<>>,
                             url |-> url]), <<"HEAD">>)
    ELSE IF head.hasLength /\ ~head.numeric
    THEN ImageRaises("ValueError", "invalid literal for int()", <<"HEAD">>)
    ELSE IF head.length > MAX_IMAGE_SIZE
    THEN ImageRaises("ValueError", "Image at URL exceeds 5MB limit", <<"HEAD">>)
    ELSE ImageOk(ImageBlock([type |-> "url", media_type |-> "", data |-> <<>>,
                             url |-> url]), <<"HEAD">>)

\* The URL branch of process_image (lines 107-124): one HEAD probe.
process_remote(url) == remote_block(url, HeadOf(url[1].c))

\* process_image(image_data): KeyError when image_url (or its url) is missing;
\* every exception is logged and raised again.
process_image(item) ==
    IF "image_url" \notin item.keys
    THEN ImageRaises("KeyError", "'image_url'", <<>>)
    ELSE IF IsDataImage(item.url) THEN process_inline(item.url)
    ELSE process_remote(item.url)

---------------------------------------------------------------------------
(* The request: body["messages"], content items, sampling parameters.      *)

\* A content item of a structured message content (a dict).
TextItem(t) ==
    [keys |-> {"type", "text"}, type |-> "text", text |-> t, url |-> <<>>]

ImageItem(url) ==
    [keys |-> {"type", "image_url"}, type |-> "image_url", text |-> "", url |-> url]

NoItem == [keys |-> {}, type |-> "", text |-> "", url |-> <<>>]

\* "data:image/png;base64," followed by the payload.
InlineUrl(head, data) == <<Run(head, 1), Run(",", 1)>> \o data

RemoteUrl(u) == <<Run(u, 1)>>

\* A message: content is a list of items (isList) or a plain string.
ListMessage(role, items) ==
    [role |-> role, isList |-> TRUE, text |-> "", items |-> items]

TextMessage(role, t) ==
    [role |-> role, isList |-> FALSE, text |-> t, items |-> <<>>]

NoMessage == [role |-> "none", isList |-> FALSE, text |-> "", items |-> <<>>]

\* open_webui.utils.misc.pop_system_message(messages): the first message of
\* role system (None when there is none), and the messages of every other role.
SystemOf(messages) ==
    IF \E i \in 1..Len(messages) : messages[i].role = "system"
    THEN messages[CHOOSE i \in 1..Len(messages) :
                      /\ messages[i].role = "system"
                      /\ \A j \in 1..(i - 1) : messages[j].role # "system"]
    ELSE NoMessage

RECURSIVE WithoutSystem(_)
WithoutSystem(messages) ==
    IF messages = <<>> THEN <<>>
    ELSE IF Head(messages).role = "system" THEN WithoutSystem(Tail(messages))
    ELSE <<Head(messages)>> \o WithoutSystem(Tail(messages))

---------------------------------------------------------------------------
(* Pipe.pipe: message normalisation (lines 136-169).                       *)

\* The state of the loops: blocks or messages built so far (out), base64
\* characters counted so far (total), network calls so far (net); st is
\* "ok", "error" (pipe returns an error text) or "raised" (an exception
\* leaves pipe).
Norm(st, msg, out, total, net) ==
    [st |-> st, msg |-> msg, out |-> out, total |-> total, net |-> net]

\* A plausible slip: the running total is compared with the per-request limit
\* only after the 3/4 factor is forgotten.
total_too_large_raw(total) == total > MAX_TOTAL_IMAGE_SIZE * 4

\* total_image_size += len(data) * 3 / 4;
\* total_image_size > self.MAX_TOTAL_IMAGE_SIZE, with total in base64 chars.
total_too_large(total) == total * 3 > MAX_TOTAL_IMAGE_SIZE * 4

\* Lines 149-158: the image block is appended, and a base64 image is
\* counted in the running total, which must stay within the limit.
image_step(acc, img) ==
    IF ~img.ok THEN Norm("error", img.msg, <<>>, acc.total, acc.net \o img.net)
    ELSE IF img.block.source.type # "base64"
    THEN Norm("ok", "", Append(acc.out, img.block), acc.total, acc.net \o img.net)
    ELSE IF total_too_large(acc.total + RunLen(img.block.source.data))
    THEN Norm("error", "Total image size exceeds 100MB limit", <<>>,
              acc.total + RunLen(img.block.source.data), acc.net \o img.net)
    ELSE Norm("ok", "", Append(acc.out, img.block),
              acc.total + RunLen(img.block.source.data), acc.net \o img.net)

\* Lines 144-161: one item of message["content"].  An item without type, or
\* a text item without text, raises KeyError outside any try; an item of
\* another type is passed over.
item_step(acc, item) ==
    IF "type" \notin item.keys
    THEN Norm("raised", "KeyError: 'type'", <<>>, acc.total, acc.net)
    ELSE IF item.type = "text"
    THEN IF "text" \notin item.keys
         THEN Norm("raised", "KeyError: 'text'", <<>>, acc.total, acc.net)
         ELSE Norm("ok", "", Append(acc.out, TextBlock(item.text)), acc.total,
                   acc.net)
    ELSE IF item.type = "image_url" THEN image_step(acc, process_image(item))
    ELSE acc

\* The loop over message["content"] (lines 143-161): it ends at the first
\* item that does not leave the state "ok".
RECURSIVE NormItems(_, _)
NormItems(items, acc) ==
    IF items = <<>> \/ acc.st # "ok" THEN acc
    ELSE NormItems(Tail(items), item_step(acc, Head(items)))

\* Lines 140-169: one message.  acc.out holds the processed messages; the
\* content of this message is built from an empty list.
message_content(m, acc) ==
    IF m.isList THEN NormItems(m.items, Norm("ok", "", <<>>, acc.total, acc.net))
    ELSE Norm("ok", "", <<TextBlock(m.text)>>, acc.total, acc.net)

\* A plausible slip: processed_messages.insert(0, ...) instead of append.
message_step_front(m, acc, c) ==
    IF c.st # "ok" THEN c
    ELSE Norm("ok", "", <<[role |-> m.role, content |-> c.out]>> \o acc.out,
              c.total, c.net)

\* Lines 167-169: the processed message is appended.
message_step(m, acc, c) ==
    IF c.st # "ok" THEN c
    ELSE Norm("ok", "", Append(acc.out, [role |-> m.role, content |-> c.out]),
              c.total, c.net)

\* The loop over messages (lines 139-169).
RECURSIVE NormMessages(_, _)
NormMessages(messages, acc) ==
    IF messages = <<>> \/ acc.st # "ok" THEN acc
    ELSE NormMessages(Tail(messages),
                      message_step(Head(messages), acc,
                                   message_content(Head(messages), acc)))

---------------------------------------------------------------------------
(* The messages endpoint: what requests.post gives back.                   *)

\* A block of the content list of a buffered response body.
RespBlock(keys, type, text) == [keys |-> keys, type |-> type, text |-> text]

\* The JSON of a buffered body: not JSON at all ("invalid"), or an object
\* with or without a content list.
Json(shape, hasContent, content) ==
    [shape |-> shape, hasContent |-> hasContent, content |-> content]

NoJson == Json("invalid", FALSE, <<>>)

\* kind "response": an HTTP response with its status, its body as text, its
\* body as JSON and its body as a feed of lines; any other kind is the
\* exception requests.post raises ("Timeout", "RequestException").
Response(status, text, json, feed) ==
    [kind |-> "response", status |-> status, text |-> text, json |-> json,
     feed |-> feed]

PostRaises(exc) ==
    [kind |-> exc, status |-> 0, text |-> "", json |-> NoJson, feed |-> <<>>]

NoRemote == PostRaises("none")

\* What a call gives back: a str (shape "str"), a generator ("generator"),
\* or an exception that leaves it ("raised").
Res(shape, val) == [shape |-> shape, val |-> val]

NoResult == Res("none", Msg("", 0, ""))

Text(t) == Msg("{}", 0, t)

---------------------------------------------------------------------------
(* Pipe.non_stream_response (lines 258-290).                               *)

\* A plausible slip: a handler list without the Timeout clause and without
\* the final "except Exception": a timeout leaves the function.
non_stream_except_narrow(exc) ==
    IF exc = "RequestException" THEN Res("str", Msg("Error: {}", 0, exc))
    ELSE Res("raised", Msg(exc, 0, ""))

\* The except clauses of non_stream_response (lines 282-290).
non_stream_except(exc) ==
    IF exc = "Timeout" THEN Res("str", Msg("Error: Request timeout", 0, ""))
    ELSE IF exc = "RequestException" THEN Res("str", Msg("Error: {}", 0, exc))
    ELSE Res("str", Msg("Error: {}", 0, exc))

\* for content in res["content"]: if content.get("type") == "text":
\*     return content.get("text", "")        (lines 276-280)
RECURSIVE first_text_of(_)
first_text_of(content) ==
    IF content = <<>> THEN ""
    ELSE LET c == Head(content)
         IN  IF "type" \in c.keys /\ c.type = "text"
             THEN IF "text" \in c.keys THEN c.text ELSE ""
             ELSE first_text_of(Tail(content))

\* response.status_code != 200 (line 267)
status_is_error(status) == status # 200

non_stream_response(r) ==
    IF r.kind # "response" THEN non_stream_except(r.kind)
    ELSE IF status_is_error(r.status)
    THEN Res("str", Msg("Error: HTTP {}: {}", r.status, r.text))
    ELSE IF r.json.shape = "invalid" THEN non_stream_except("JSONDecodeError")
    ELSE IF r.json.hasContent /\ r.json.content # <<>>
    THEN Res("str", Text(first_text_of(r.json.content)))
    ELSE Res("str", Text(""))

---------------------------------------------------------------------------
(* Pipe.stream_response (lines 212-256): a generator.                      *)

\* A line of the feed as response.iter_lines() gives it.  raw: "empty" (b""),
\* "other" (no "data: " prefix), "badutf8" (bytes that are not UTF-8), "data"
\* (a data line) or "raise" (iter_lines raises exc here).  For a data line,
\* js is what json.loads makes of the rest: "invalid", "number", "array" or
\* "object" with its keys, type and delta; delta is "object" (hasText: it has
\* a text key), "number", or "string" (hasText: it contains "text").
Line(raw, js, keys, type, delta, hasText, text, exc) ==
    [raw |-> raw, js |-> js, keys |-> keys, type |-> type, delta |-> delta,
     hasText |-> hasText, text |-> text, exc |-> exc]

EmptyLine == Line("empty", "", {}, "", "", FALSE, "", "")
EventLine == Line("other", "", {}, "", "", FALSE, "", "")
BadUtf8Line == Line("badutf8", "", {}, "", "", FALSE, "", "")
BadJsonLine == Line("data", "invalid", {}, "", "", FALSE, "", "")
NumberLine == Line("data", "number", {}, "", "", FALSE, "", "")
NoTypeLine == Line("data", "object", {"delta"}, "", "object", TRUE, "x", "")
DeltaLine(t) ==
    Line("data", "object", {"type", "delta"}, "content_block_delta", "object",
         TRUE, t, "")
NoDeltaLine ==
    Line("data", "object", {"type"}, "content_block_delta", "", FALSE, "", "")
NoTextLine ==
    Line("data", "object", {"type", "delta"}, "content_block_delta", "object",
         FALSE, "", "")
NumberDeltaLine ==
    Line("data", "object", {"type", "delta"}, "content_block_delta", "number",
         FALSE, "", "")
StringDeltaLine ==
    Line("data", "object", {"type", "delta"}, "content_block_delta", "string",
         FALSE, "", "")
StringTextDeltaLine ==
    Line("data", "object", {"type", "delta"}, "content_block_delta", "string",
         TRUE, "", "")
StopLine == Line("data", "object", {"type"}, "message_stop", "", FALSE, "", "")
StartLine == Line("data", "object", {"type"}, "message_start", "", FALSE, "", "")
RaiseLine(exc) == Line("raise", "", {}, "", "", FALSE, "", exc)

\* What one turn of the loop body does with a line.
Skip == [op |-> "skip", text |-> "", exc |-> ""]
Yield(t) == [op |-> "yield", text |-> t, exc |-> ""]
Stop == [op |-> "stop", text |-> "", exc |-> ""]
Raise(exc) == [op |-> "raise", text |-> "", exc |-> exc]

\* elif data["type"] == "message_stop": break
on_message_stop == Stop

\* except json.JSONDecodeError: logged, the loop goes on.
on_json_error == Skip

\* Lines 227-246: one line of the feed.
process_line(line) ==
    IF line.raw = "raise" THEN Raise(line.exc)
    ELSE IF line.raw = "empty" THEN Skip
    ELSE IF line.raw = "badutf8" THEN Raise("UnicodeDecodeError")
    ELSE IF line.raw # "data" THEN Skip
    ELSE IF line.js = "invalid" THEN on_json_error
    ELSE IF line.js # "object" THEN Raise("TypeError")
    ELSE IF "type" \notin line.keys THEN Skip
    ELSE IF line.type = "content_block_delta"
    THEN IF "delta" \notin line.keys THEN Skip
         ELSE IF line.delta = "object"
         THEN IF line.hasText THEN Yield(line.text) ELSE Skip
         ELSE IF line.delta = "string"
         THEN IF line.hasText THEN Raise("TypeError") ELSE Skip
         ELSE Raise("TypeError")
    ELSE IF line.type = "message_stop" THEN on_message_stop
    ELSE Skip


\* The generator: where it is suspended (st), the lines it has taken from
\* the connection (pos), the connection of the with block (conn) and how
\* often that connection was released (releases).  st is "created" (not
\* started), "active" (suspended at the yield of a delta, line 236),
\* "at_status" (at the yield of line 223), "at_error" (at a yield of lines
\* 250-256), "done" (returned), "closed" (closed by the consumer) or
\* "raised" (an exception left it).
GenAt(st, pos, conn, releases) ==
    [st |-> st, pos |-> pos, conn |-> conn, releases |-> releases]

NoGen == GenAt("none", 0, "none", 0)

\* What one resumption does: the generator after it, the fragment it yields
\* (none when it returns) and the network calls it makes.
StepOut(g, out, net) == [gen |-> g, out |-> out, net |-> net]

\* The except clauses of stream_response (lines 248-256): the fragment
\* yielded for an exception (no fragment: the exception is not handled).
stream_except(exc) ==
    IF exc = "Timeout" THEN <<Msg("Error: Request timeout", 0, "")>>
    ELSE IF exc = "RequestException"
    THEN <<Msg("Error: Request failed: {}", 0, exc)>>
    ELSE <<Msg("Error: {}", 0, exc)>>

\* A plausible slip: the handlers sit inside the loop, so after the error
\* fragment the loop goes on with the next line.
raise_out_resume(out, pos, conn, releases) ==
    StepOut(GenAt(IF out = <<>> THEN "raised" ELSE "active", pos, conn, releases),
            out, <<>>)

\* An exception at position pos: the with block, when entered, releases the
\* connection on the way out; then the handler yields its fragment.
raise_out(out, pos, conn, releases) ==
    StepOut(GenAt(IF out = <<>> THEN "raised" ELSE "at_error", pos,
                  IF conn = "open" THEN "released" ELSE conn,
                  IF conn = "open" THEN releases + 1 ELSE releases),
            out, <<>>)

stream_raise(exc, pos, conn, releases) ==
    raise_out(stream_except(exc), pos, conn, releases)

\* The for loop over response.iter_lines() (lines 226-246), resumed with pos
\* lines taken, until the next yield or the end of the with block.
RECURSIVE read_lines(_, _, _)

\* One turn of the loop: eff is what the line at pos + 1 does.
read_line(feed, pos, releases, eff) ==
    IF eff.op = "skip" THEN read_lines(feed, pos + 1, releases)
    ELSE IF eff.op = "yield"
    THEN StepOut(GenAt("active", pos + 1, "open", releases), <<Text(eff.text)>>,
                 <<>>)
    ELSE IF eff.op = "stop"
    THEN StepOut(GenAt("done", pos + 1, "released", releases + 1), <<>>, <<>>)
    ELSE stream_raise(eff.exc, pos + 1, "open", releases)

read_lines(feed, pos, releases) ==
    IF pos >= Len(feed)
    THEN StepOut(GenAt("done", pos, "released", releases + 1), <<>>, <<>>)
    ELSE read_line(feed, pos, releases, process_line(feed[pos + 1]))

\* A plausible slip: no status test, the body of an error response is read
\* as a feed.
stream_status_is_error_never(status) == FALSE

\* response.status_code != 200 (line 220)
stream_status_is_error(status) == status # 200

\* The body of stream_response from its start (lines 214-226): the POST, the
\* status test, then the loop.
WithPost(s) == StepOut(s.gen, s.out, <<"POST">>)

stream_start(r) ==
    IF r.kind # "response" THEN WithPost(stream_raise(r.kind, 0, "none", 0))
    ELSE IF stream_status_is_error(r.status)
    THEN StepOut(GenAt("at_status", 0, "open", 0),
                 <<Msg("Error: HTTP {}: {}", r.status, r.text)>>, <<"POST">>)
    ELSE WithPost(read_lines(r.feed, 0, 0))

\* A plausible slip: a generator that, resumed at the fragment of an error
\* handler, does not return.
gen_next_stuck(g, r) ==
    IF g.st = "created" THEN stream_start(r)
    ELSE IF g.st = "active" THEN read_lines(r.feed, g.pos, g.releases)
    ELSE IF g.st = "at_status"
    THEN StepOut(GenAt("done", g.pos, "released", g.releases + 1), <<>>, <<>>)
    ELSE StepOut(g, <<>>, <<>>)

\* next(generator): runs the generator to its next yield or to its end.
gen_next(g, r) ==
    IF g.st = "created" THEN stream_start(r)
    ELSE IF g.st = "active" THEN read_lines(r.feed, g.pos, g.releases)
    ELSE IF g.st = "at_status"
    THEN StepOut(GenAt("done", g.pos, "released", g.releases + 1), <<>>, <<>>)
    ELSE StepOut(GenAt("done", g.pos, g.conn, g.releases), <<>>, <<>>)

\* A plausible slip: the response is not held by a with block, so a consumer
\* that stops early leaves the connection open.
gen_close_leak(g) == GenAt("closed", g.pos, g.conn, g.releases)

\* generator.close(), or the generator dropped by its consumer: GeneratorExit
\* is raised at the yield; inside the with block that releases the connection.
gen_close(g) ==
    IF g.st \in {"active", "at_status"}
    THEN GenAt("closed", g.pos, "released", g.releases + 1)
    ELSE GenAt("closed", g.pos, g.conn, g.releases)

---------------------------------------------------------------------------
(* Pipe.pipe (lines 129-210).                                              *)

MAX_TOKENS == 4096
TEMPERATURE == "1.0"

Body(keys, messages, model, stream, max_tokens, temperature, stop) ==
    [keys |-> keys, messages |-> messages, model |-> model, stream |-> stream,
     max_tokens |-> max_tokens, temperature |-> temperature, stop |-> stop]

NoBody == Body({}, <<>>, <<>>, FALSE, 0, "", <<>>)

NoPayload ==
    [keys |-> {}, model |-> <<>>, messages |-> <<>>, max_tokens |-> 0,
     temperature |-> "", stream |-> FALSE, stop_sequences |-> <<>>,
     system |-> NoMessage]

\* body.get("stream", False)
StreamOf(b) == "stream" \in b.keys /\ b.stream

\* A plausible slip: stop_sequences is set unconditionally, from
\* body.get("stop", []).
build_payload_stop_always(b, mid, messages, sys) ==
    [keys |-> {"model", "messages", "max_tokens", "temperature", "stream",
               "stop_sequences"}
              \cup (IF sys # NoMessage THEN {"system"} ELSE {}),
     model |-> mid,
     messages |-> messages,
     max_tokens |-> IF "max_tokens" \in b.keys THEN b.max_tokens ELSE MAX_TOKENS,
     temperature |-> IF "temperature" \in b.keys THEN b.temperature
                     ELSE TEMPERATURE,
     stream |-> StreamOf(b),
     stop_sequences |-> IF "stop" \in b.keys THEN b.stop ELSE <<>>,
     system |-> sys]

\* Lines 177-190: the payload.  system is str(system_message), the text
\* Python prints for the message dict; the message stands for it here.
build_payload(b, mid, messages, sys) ==
    [keys |-> {"model", "messages", "max_tokens", "temperature", "stream"}
              \cup (IF "stop" \in b.keys /\ b.stop # <<>>
                    THEN {"stop_sequences"} ELSE {})
              \cup (IF sys # NoMessage THEN {"system"} ELSE {}),
     model |-> mid,
     messages |-> messages,
     max_tokens |-> IF "max_tokens" \in b.keys THEN b.max_tokens ELSE MAX_TOKENS,
     temperature |-> IF "temperature" \in b.keys THEN b.temperature
                     ELSE TEMPERATURE,
     stream |-> StreamOf(b),
     stop_sequences |-> IF "stop" \in b.keys /\ b.stop # <<>> THEN b.stop
                        ELSE <<>>,
     system |-> sys]

\* What a call of pipe leaves behind.
PipeOut(res, net, pl, g) == [result |-> res, net |-> net, payload |-> pl, gen |-> g]

\* self._extract_model_id(body["model"]) inside the try of lines 172-175.
model_of(b) ==
    IF "model" \notin b.keys THEN [ok |-> FALSE, exc |-> "KeyError", val |-> <<>>]
    ELSE extract_model_id(b.model)

\* A plausible slip: a request that fails is sent a second time.
pipe_send_retry(b, r, n, pl) ==
    IF StreamOf(b)
    THEN PipeOut(Res("generator", Msg("", 0, "")), n.net, pl,
                 GenAt("created", 0, "none", 0))
    ELSE PipeOut(non_stream_response(r),
                 IF r.kind = "response" /\ r.status = 200
                 THEN n.net \o <<"POST">> ELSE n.net \o <<"POST", "POST">>,
                 pl, NoGen)

\* Lines 177-210: the payload is built and handed to stream_response (a
\* generator: nothing runs yet) or to non_stream_response (the POST).
pipe_send(b, r, n, pl) ==
    IF StreamOf(b)
    THEN PipeOut(Res("generator", Msg("", 0, "")), n.net, pl,
                 GenAt("created", 0, "none", 0))
    ELSE PipeOut(non_stream_response(r), n.net \o <<"POST">>, pl, NoGen)

\* A plausible slip: the model is resolved only once the request has gone
\* out, so an invalid model is reported after the POST.
pipe_after_eager(b, r, n, m) ==
    IF n.st = "raised"
    THEN PipeOut(Res("raised", Msg(n.msg, 0, "")), n.net, NoPayload, NoGen)
    ELSE IF n.st = "error"
    THEN PipeOut(Res("str", Msg("Error: Failed to process image: {}", 0, n.msg)),
                 n.net, NoPayload, NoGen)
    ELSE IF ~m.ok
    THEN PipeOut(Res("str", Msg("Error: Invalid model format: {}", 0, m.exc)),
                 n.net \o <<"POST">>,
                 build_payload(b, <<>>, n.out, SystemOf(b.messages)), NoGen)
    ELSE pipe_send(b, r, n, build_payload(b, m.val, n.out, SystemOf(b.messages)))

\* Lines 171-210, with the outcome n of the normalisation and the outcome m
\* of the model resolution at hand.
pipe_after(b, r, n, m) ==
    IF n.st = "raised"
    THEN PipeOut(Res("raised", Msg(n.msg, 0, "")), n.net, NoPayload, NoGen)
    ELSE IF n.st = "error"
    THEN PipeOut(Res("str", Msg("Error: Failed to process image: {}", 0, n.msg)),
                 n.net, NoPayload, NoGen)
    ELSE IF ~m.ok
    THEN PipeOut(Res("str", Msg("Error: Invalid model format: {}", 0, m.exc)),
                 n.net, NoPayload, NoGen)
    ELSE pipe_send(b, r, n, build_payload(b, m.val, n.out, SystemOf(b.messages)))

\* Lines 134-210, once the key is known to be set.
pipe_with_key(b, r) ==
    pipe_after(b, r,
               NormMessages(WithoutSystem(b.messages), Norm("ok", "", <<>>, 0, <<>>)),
               model_of(b))

\* A plausible slip: the key is not tested, the request goes out without it.
pipe_unchecked(key, b, r) == pipe_with_key(b, r)

\* pipe(body): the key test of lines 131-132 first.
pipe(key, b, r) ==
    IF key = ""
    THEN PipeOut(Res("str", Msg("Error: ANTHROPIC_API_KEY not configured", 0, "")),
                 <<>>, NoPayload, NoGen)
    ELSE pipe_with_key(b, r)

---------------------------------------------------------------------------
(* The inputs of the model.                                                *)

\* Sequences over S of length at most n.
SeqUpTo(S, n) == UNION {[1..k -> S] : k \in 0..n}

\* n copies of x.
Rep(x, n) == [i \in 1..n |-> x]

\* The longest base64 payload the per-image test accepts: 6990506 characters.
InlineMaxLen == (MAX_IMAGE_SIZE * 4) \div 3

\* Inputs of process_image: data URIs whose payload is at most two runs,
\* around the per-image limit, with and without a "," of their own; data
\* URIs without any ","; remote URLs; an item without image_url.
PayloadRuns ==
    {Run(c, n) : c \in {"A", "B"},
                 n \in {1, InlineMaxLen - 1, InlineMaxLen, InlineMaxLen + 1}}
    \cup {Run(",", 1)}

ImageInputs ==
    {ImageItem(InlineUrl(h, d)) : h \in DataHeads, d \in SeqUpTo(PayloadRuns, 2)}
    \cup {ImageItem(<<Run(h, 1)>>) : h \in DataHeads}
    \cup {ImageItem(RemoteUrl(u)) : u \in RemoteUrls}
    \cup {[keys |-> {"type"}, type |-> "image_url", text |-> "", url |-> <<>>]}

\* Items of the requests given to pipe.
InlineItem(n) == ImageItem(InlineUrl("data:image/png;base64", <<Run("A", n)>>))

PipeItems ==
    {TextItem("hi"), InlineItem(1), InlineItem(13), InlineItem(InlineMaxLen + 1),
     ImageItem(RemoteUrl("https://img/small")),
     ImageItem(RemoteUrl("https://img/large")),
     ImageItem(RemoteUrl("https://img/timeout")),
     ImageItem(RemoteUrl("https://img/badlength")),
     [keys |-> {"type"}, type |-> "input_audio", text |-> "", url |-> <<>>],
     [keys |-> {"text"}, type |-> "", text |-> "hi", url |-> <<>>],
     [keys |-> {"type"}, type |-> "image_url", text |-> "", url |-> <<>>]}

\* The messages of a request: a bulk of k largest valid inline images and a
\* tail of items, in one user message, or spread over two user messages
\* that follow a system message and surround an assistant message.
OneMessage(k, tail) ==
    <<ListMessage("user", Rep(InlineItem(InlineMaxLen), k) \o tail)>>

FourMessages(k, tail) ==
    <<TextMessage("system", "be brief"),
      ListMessage("user", Rep(InlineItem(InlineMaxLen), k)),
      TextMessage("assistant", "ok"),
      ListMessage("user", tail)>>

MessageLists ==
    {OneMessage(k, t) : k \in {0, MaxBulk}, t \in SeqUpTo(PipeItems, MaxItems)}
    \cup {FourMessages(k, t) : k \in {0, MaxBulk},
                               t \in SeqUpTo(PipeItems, MaxItems)}

\* Requests: every message list with a prefixed model and the default
\* sampling parameters, streaming or not; and two short message lists with
\* every model string and every set of sampling parameters.
PipeModels == {<<>>, <<"m">>, <<"v", ".", "m">>, <<"v", ".">>}

Bodies ==
    {Body(k, ms, <<"v", ".", "m">>, TRUE, 0, "", <<>>) :
        k \in {{"model"}, {"model", "stream"}}, ms \in MessageLists}
    \cup
    {Body(k \cup p, ms, m, s, 100, "0.2", st) :
        k \in {{}, {"model"}}, p \in {{}, {"stream"}},
        ms \in {OneMessage(0, <<TextItem("hi")>>),
                <<TextMessage("system", "be brief"), TextMessage("user", "hi"),
                  ListMessage("user", <<ImageItem(RemoteUrl("https://img/small"))>>)>>},
        m \in PipeModels, s \in BOOLEAN, st \in {<<>>, <<"END">>}}
    \cup
    {Body({"model", "max_tokens", "temperature", "stop"} \cup p,
          <<TextMessage("user", "hi")>>, <<"m">>, TRUE, 100, "0.2", st) :
        p \in {{}, {"stream"}}, st \in {<<>>, <<"END">>}}

\* Buffered response bodies: content lists of at most MaxBlocks blocks.
RespBlocks ==
    {RespBlock({"type", "text"}, "text", "hello"),
     RespBlock({"type", "text"}, "text", "bye"),
     RespBlock({"type"}, "tool_use", ""),
     RespBlock({"type"}, "text", ""),
     RespBlock({"text"}, "", "stray")}

Jsons ==
    {NoJson, Json("object", FALSE, <<>>)}
    \cup {Json("object", TRUE, c) : c \in SeqUpTo(RespBlocks, MaxBlocks)}

Statuses == {200, 201, 401, 500}

NonStreamRemotes ==
    {PostRaises("Timeout"), PostRaises("RequestException")}
    \cup {Response(st, "unauthorized", j, <<>>) : st \in Statuses, j \in Jsons}

\* Streamed feeds: at most MaxFeedLen lines.
Lines ==
    {EmptyLine, EventLine, BadJsonLine, NumberLine, NoTypeLine, DeltaLine("a"),
     DeltaLine("b"), NoDeltaLine, NoTextLine, NumberDeltaLine, StringDeltaLine,
     StringTextDeltaLine, BadUtf8Line, StopLine, StartLine,
     RaiseLine("RequestException"), RaiseLine("Timeout")}

Feeds == SeqUpTo(Lines, MaxFeedLen)

StreamRemotes ==
    {PostRaises("Timeout"), PostRaises("RequestException")}
    \cup {Response(200, "", NoJson, f) : f \in Feeds}
    \cup {Response(st, "unauthorized", NoJson, f) :
            st \in Statuses \ {200},
            f \in {<<>>, <<DeltaLine("a"), StopLine>>}}

\* What the endpoint answers to the requests given to pipe.
PipeRemotes ==
    {PostRaises("Timeout"), PostRaises("RequestException"),
     Response(401, "unauthorized", NoJson, <<DeltaLine("a")>>),
     Response(200, "", Json("object", TRUE,
                            <<RespBlock({"type"}, "tool_use", ""),
                              RespBlock({"type", "text"}, "text", "hello")>>),
              <<DeltaLine("a"), BadJsonLine, DeltaLine("b"), StopLine,
                DeltaLine("a")>>),
     Response(200, "", NoJson,
              <<DeltaLine("a"), RaiseLine("Timeout"), DeltaLine("b")>>),
     Response(200, "", Json("object", FALSE, <<>>),
              <<DeltaLine("a"), NumberLine, DeltaLine("b")>>)}

Keys == {"", "sk-key"}

---------------------------------------------------------------------------
(* Two calls of pipe on one Pipe object, interleaved (lines 129-210).      *)

\* The attributes __init__ gives the object (lines 51-58) that pipe reads.
\* total_image_size is a local of pipe (line 137), not an attribute: the
\* field stands for the place a total kept on the object would take, and the
\* code never writes it.
NewPipe ==
    [MAX_IMAGE_SIZE |-> MAX_IMAGE_SIZE,
     MAX_TOTAL_IMAGE_SIZE |-> MAX_TOTAL_IMAGE_SIZE,
     total_image_size |-> 0]

CallIds == {1, 2}

\* The locals of a call: where it is (pc: "idle", "messages" at the top of
\* the loop over messages, "items" inside the loop over message["content"],
\* "returned"), its request and endpoint, messages (pop_system_message's
\* second value), the index mi of the current message and ii of the next
\* item, processed_content with the running total (cur), processed_messages
\* (acc) and what the call gave back (out).
Call(pc, b, r, messages, mi, ii, cur, acc, out) ==
    [pc |-> pc, body |-> b, remote |-> r, messages |-> messages, mi |-> mi,
     ii |-> ii, cur |-> cur, acc |-> acc, out |-> out]

NoNorm == Norm("none", "", <<>>, 0, <<>>)

NoOut == PipeOut(NoResult, <<>>, NoPayload, NoGen)

NoCall == Call("idle", NoBody, NoRemote, <<>>, 0, 0, NoNorm, NoNorm, NoOut)

\* Lines 131-137: the key test, pop_system_message, the empty lists and the
\* total of this call.
call_start(key, b, r) ==
    IF key = ""
    THEN Call("returned", b, r, <<>>, 0, 0, NoNorm, NoNorm,
              PipeOut(Res("str", Msg("Error: ANTHROPIC_API_KEY not configured",
                                     0, "")),
                      <<>>, NoPayload, NoGen))
    ELSE Call("messages", b, r, WithoutSystem(b.messages), 1, 0, NoNorm,
              Norm("ok", "", <<>>, 0, <<>>), NoOut)

\* What a step of a call leaves: the object and the call's locals.
CallOut(obj, call) == [obj |-> obj, call |-> call]

\* A plausible slip: the running total is kept on the object
\* (self.total_image_size), so every call adds to the same total.
call_item_shared(obj, c, item) ==
    CallOut([obj EXCEPT !.total_image_size =
                 item_step([c.cur EXCEPT !.total = obj.total_image_size],
                           item).total],
            [c EXCEPT !.cur = item_step([c.cur EXCEPT !.total =
                                             obj.total_image_size], item),
                      !.ii = c.ii + 1])

\* Lines 144-161 for the item at hand: only locals are written.
call_item(obj, c, item) ==
    CallOut(obj, [c EXCEPT !.cur = item_step(c.cur, item), !.ii = c.ii + 1])

\* Lines 139-142 and 162-169, at the top of the loop over messages: the
\* loop is over (lines 171-210 follow and the call returns), or a plain
\* content is wrapped, or the loop over the items starts.
call_message(obj, c) ==
    IF c.acc.st # "ok" \/ c.mi > Len(c.messages)
    THEN CallOut(obj, [c EXCEPT !.pc = "returned",
                                !.out = pipe_after(c.body, c.remote, c.acc,
                                                   model_of(c.body))])
    ELSE IF c.messages[c.mi].isList
    THEN CallOut(obj, [c EXCEPT !.pc = "items", !.ii = 1,
                                !.cur = Norm("ok", "", <<>>, c.acc.total,
                                             c.acc.net)])
    ELSE CallOut(obj, [c EXCEPT !.mi = c.mi + 1,
                                !.acc = message_step(c.messages[c.mi], c.acc,
                                            message_content(c.messages[c.mi],
                                                            c.acc))])

\* Inside the loop over the items: the next item, or the end of the loop
\* (lines 167-169: the message is appended) or of the call (an item failed).
call_items(obj, c) ==
    IF c.cur.st = "ok" /\ c.ii <= Len(c.messages[c.mi].items)
    THEN call_item(obj, c, c.messages[c.mi].items[c.ii])
    ELSE CallOut(obj, [c EXCEPT !.pc = "messages", !.mi = c.mi + 1, !.ii = 0,
                                !.cur = NoNorm,
                                !.acc = message_step(c.messages[c.mi], c.acc,
                                                     c.cur)])

\* One step of a call that is under way.
call_step(obj, c) ==
    IF c.pc = "messages" THEN call_message(obj, c) ELSE call_items(obj, c)

---------------------------------------------------------------------------
(* The state machine.                                                      *)

Init ==
    /\ apiKey \in Keys
    /\ body = NoBody
    /\ remote = NoRemote
    /\ result = NoResult
    /\ netlog = <<>>
    /\ payload = NoPayload
    /\ gen = NoGen
    /\ emitted = <<>>
    /\ model_string = <<>>
    /\ model_id = NoModel
    /\ image_data = NoItem
    /\ image_block = NoImage
    /\ self_attrs = NewPipe
    /\ calls = [c \in CallIds |-> NoCall]

\* No call has been made yet: every call of the model starts here.
Idle == result = NoResult /\ model_id = NoModel /\ image_block = NoImage

\* The state a call of pipe leaves, o being what the call gives back.
PipeReturns(b, r, o) ==
    /\ result' = o.result
    /\ netlog' = o.net
    /\ payload' = o.payload
    /\ gen' = o.gen
    /\ body' = b
    /\ remote' = r
    /\ UNCHANGED <<apiKey, emitted, model_string, model_id, image_data, image_block>>
    /\ UNCHANGED <<self_attrs, calls>>

\* pipe(body), with the endpoint answering r.
Pipe(b, r) == PipeReturns(b, r, pipe(apiKey, b, r))

\* stream_response(url, headers, payload) called on its own: a generator.
StreamResponse(r) ==
    /\ result' = Res("generator", Msg("", 0, ""))
    /\ gen' = GenAt("created", 0, "none", 0)
    /\ remote' = r
    /\ UNCHANGED <<apiKey, body, netlog, payload, emitted, model_string, model_id,
                   image_data, image_block>>
    /\ UNCHANGED <<self_attrs, calls>>

\* The state one resumption s of the generator leaves.
GenResumes(s) ==
    /\ gen' = s.gen
    /\ emitted' = emitted \o s.out
    /\ netlog' = netlog \o s.net
    /\ UNCHANGED <<apiKey, body, remote, result, payload, model_string, model_id,
                   image_data, image_block>>
    /\ UNCHANGED <<self_attrs, calls>>

\* The consumer asks the generator for its next fragment.
GenNext ==
    /\ gen.st \in {"created", "active", "at_status", "at_error"}
    /\ GenResumes(gen_next(gen, remote))

\* The consumer stops: it closes or drops the generator.
GenClose ==
    /\ gen.st \in {"created", "active", "at_status", "at_error"}
    /\ gen' = gen_close(gen)
    /\ UNCHANGED <<apiKey, body, remote, result, netlog, payload, emitted,
                   model_string, model_id, image_data, image_block>>
    /\ UNCHANGED <<self_attrs, calls>>

\* non_stream_response(url, headers, payload) called on its own.
NonStreamResponse(r) ==
    /\ result' = non_stream_response(r)
    /\ netlog' = <<"POST">>
    /\ remote' = r
    /\ UNCHANGED <<apiKey, body, payload, gen, emitted, model_string, model_id,
                   image_data, image_block>>
    /\ UNCHANGED <<self_attrs, calls>>

\* _extract_model_id(model_string)
ExtractModelId(s) ==
    /\ model_string' = s
    /\ model_id' = extract_model_id(s)
    /\ UNCHANGED <<apiKey, body, remote, result, netlog, payload, gen, emitted,
                   image_data, image_block>>
    /\ UNCHANGED <<self_attrs, calls>>

\* The state a call of process_image leaves, o being its outcome: the block
\* or the exception, and the HEAD probe it made for a remote URL (line 110).
ImageReturns(item, o) ==
    /\ image_data' = item
    /\ image_block' = o
    /\ netlog' = netlog \o o.net
    /\ UNCHANGED <<apiKey, body, remote, result, payload, gen, emitted,
                   model_string, model_id>>
    /\ UNCHANGED <<self_attrs, calls>>

\* process_image(image_data)
ProcessImage(item) == ImageReturns(item, process_image(item))

\* The requests of the interleaved calls: the largest total of inline
\* images that passes, a request over that total, and short requests.
ConcBodies ==
    {Body({"model"}, ms, <<"v", ".", "m">>, FALSE, 0, "", <<>>) :
        ms \in {OneMessage(MaxBulk, <<InlineItem(13)>>),
                OneMessage(MaxBulk, <<InlineItem(13), InlineItem(1)>>),
                FourMessages(0, <<InlineItem(13), TextItem("hi")>>),
                <<TextMessage("user", "hi")>>}}

ConcRemote ==
    Response(200, "", Json("object", TRUE,
                           <<RespBlock({"type", "text"}, "text", "hello")>>), <<>>)

\* A call of pipe begins on the shared object.
CallStart(c, b) ==
    /\ calls[c].pc = "idle"
    /\ calls' = [calls EXCEPT ![c] = call_start(apiKey, b, ConcRemote)]
    /\ UNCHANGED <<apiKey, body, remote, result, netlog, payload, gen, emitted,
                   model_string, model_id, image_data, image_block, self_attrs>>

\* The state a step of call c leaves.
CallSteps(c, o) ==
    /\ calls' = [calls EXCEPT ![c] = o.call]
    /\ self_attrs' = o.obj
    /\ UNCHANGED <<apiKey, body, remote, result, netlog, payload, gen, emitted,
                   model_string, model_id, image_data, image_block>>

\* A call under way takes its next step.
CallStep(c) ==
    /\ calls[c].pc \in {"messages", "items"}
    /\ CallSteps(c, call_step(self_attrs, calls[c]))

NextConc ==
    \/ \E c \in CallIds, b \in ConcBodies : CallStart(c, b)
    \/ \E c \in CallIds : CallStep(c)

SpecConc == Init /\ [][NextConc]_vars

Next ==
    \/ Idle /\ \E b \in Bodies, r \in PipeRemotes : Pipe(b, r)
    \/ GenNext
    \/ GenClose

Spec == Init /\ [][Next]_vars

NextStream ==
    \/ Idle /\ \E r \in StreamRemotes : StreamResponse(r)
    \/ GenNext
    \/ GenClose

SpecStream == Init /\ [][NextStream]_vars

NextNonStream == Idle /\ \E r \in NonStreamRemotes : NonStreamResponse(r)

SpecNonStream == Init /\ [][NextNonStream]_vars

NextModelId == Idle /\ \E s \in ModelStrings : ExtractModelId(s)

SpecModelId == Init /\ [][NextModelId]_vars

NextImage == Idle /\ \E item \in ImageInputs : ProcessImage(item)

SpecImage == Init /\ [][NextImage]_vars

\* stream_response with a consumer that keeps asking for the next fragment
\* (a for loop over the generator) until the generator ends.
\* The feeds are those of the lines that decide how the loop ends: deltas,
\* skipped lines, message_stop, and the lines that raise.
PullLines ==
    {EmptyLine, BadJsonLine, NumberLine, DeltaLine("a"), DeltaLine("b"),
     NoDeltaLine, StopLine, RaiseLine("Timeout")}

PullRemotes ==
    {PostRaises("Timeout"), PostRaises("RequestException"),
     Response(401, "unauthorized", NoJson, <<DeltaLine("a"), StopLine>>)}
    \cup {Response(200, "", NoJson, f) : f \in SeqUpTo(PullLines, MaxFeedLen)}

NextPull ==
    \/ Idle /\ \E r \in PullRemotes : StreamResponse(r)
    \/ GenNext

SpecPull == Init /\ [][NextPull]_vars /\ WF_vars(GenNext)

---------------------------------------------------------------------------
(* What the claims speak of, stated from the inputs alone.                 *)

\* i occurs in the sequence of network calls.
Made(call) == \E i \in 1..Len(netlog) : netlog[i] = call

\* A valid content-delta event: an object of type content_block_delta whose
\* delta is an object with a text field.
IsDelta(l) ==
    /\ l.raw = "data" /\ l.js = "object" /\ "type" \in l.keys
    /\ l.type = "content_block_delta" /\ "delta" \in l.keys
    /\ l.delta = "object" /\ l.hasText

IsStop(l) ==
    l.raw = "data" /\ l.js = "object" /\ "type" \in l.keys /\ l.type = "message_stop"

\* A data line that is not the expected envelope: invalid JSON, JSON that is
\* not an object, an object without type, a content delta without a usable
\* delta.
IsMalformed(l) ==
    /\ l.raw = "data"
    /\ \/ l.js # "object"
       \/ "type" \notin l.keys
       \/ l.type = "content_block_delta" /\ ~IsDelta(l)

\* The index of the first message-stop event, Len(feed) + 1 when there is none.
FirstStop(feed) ==
    IF \E i \in 1..Len(feed) : IsStop(feed[i])
    THEN CHOOSE i \in 1..Len(feed) :
             IsStop(feed[i]) /\ \A j \in 1..(i - 1) : ~IsStop(feed[j])
    ELSE Len(feed) + 1

\* The delta texts of the first n lines, in feed order, as fragments.
RECURSIVE DeltaTexts(_, _)
DeltaTexts(feed, n) ==
    IF n = 0 THEN <<>>
    ELSE IF IsDelta(feed[n])
    THEN Append(DeltaTexts(feed, n - 1), Text(feed[n].text))
    ELSE DeltaTexts(feed, n - 1)

\* A fragment of the error paths of stream_response.
IsErrorFragment(f) ==
    f.fmt \in {"Error: HTTP {}: {}", "Error: Request timeout",
               "Error: Request failed: {}", "Error: {}"}

\* The generator has run, on the feed of a 200 response, to its return.
StreamedToEnd ==
    gen.st = "done" /\ remote.kind = "response" /\ remote.status = 200

---------------------------------------------------------------------------
(* C1: in stream_response on a 200 response, for every feed of lines, the  *)
(* fragments emitted are exactly the delta texts of the content-delta      *)
(* events before the first message-stop event, in feed order, and no line  *)
(* after the message-stop event is consumed.  Stated for feeds whose       *)
(* reading never fails, on a generator consumed to its end.                *)
C1_DeltasUntilStop ==
    (StreamedToEnd /\ \A i \in 1..Len(remote.feed) : remote.feed[i].raw # "raise")
    => /\ emitted = DeltaTexts(remote.feed, FirstStop(remote.feed) - 1)
       /\ gen.pos = IF FirstStop(remote.feed) <= Len(remote.feed)
                    THEN FirstStop(remote.feed) ELSE Len(remote.feed)

(* C2: a data line that is not the expected envelope (invalid JSON, JSON   *)
(* that is not an object, an object without type, a content delta whose    *)
(* delta is missing or is not an object with a text field) is skipped: a    *)
(* feed made of valid content deltas and such lines yields every delta      *)
(* text, in order, and nothing else.                                        *)
C2_MalformedSkipped ==
    (StreamedToEnd /\ \A i \in 1..Len(remote.feed) :
                          IsDelta(remote.feed[i]) \/ IsMalformed(remote.feed[i]))
    => emitted = DeltaTexts(remote.feed, Len(remote.feed))

(* C3: when the initial HTTP status is not 2xx, the generator, once        *)
(* started, has emitted exactly one fragment, which holds the status code  *)
(* and the response body, and stops there; no line of the body is read.    *)
C3_ErrorStatusOneFragment ==
    (Made("POST") /\ remote.kind = "response" /\ remote.status \notin 200..299)
    => /\ emitted = <<Msg("Error: HTTP {}: {}", remote.status, remote.text)>>
       /\ gen.pos = 0
       /\ gen.st \in {"at_status", "done", "closed"}

C3_Witness ==
    /\ gen.st = "done" /\ remote.kind = "response" /\ remote.status = 401
    /\ remote.feed # <<>>
    /\ emitted = <<Msg("Error: HTTP {}: {}", 401, "unauthorized")>>

---------------------------------------------------------------------------
\* A call of pipe, of non_stream_response or of stream_response has returned.
Called == result.shape # "none"

\* The first block of type text of a content list, by position.
HasTextBlock(content) ==
    \E i \in 1..Len(content) : "type" \in content[i].keys /\ content[i].type = "text"

FirstTextBlock(content) ==
    content[CHOOSE i \in 1..Len(content) :
                /\ "type" \in content[i].keys /\ content[i].type = "text"
                /\ \A j \in 1..(i - 1) :
                       ~("type" \in content[j].keys /\ content[j].type = "text")]

\* A well-formed body: a JSON object with a content list whose blocks have a
\* type and whose text blocks have a text.
WellFormed(j) ==
    /\ j.shape = "object" /\ j.hasContent
    /\ \A i \in 1..Len(j.content) :
           /\ "type" \in j.content[i].keys
           /\ j.content[i].type = "text" => "text" \in j.content[i].keys

\* The text the claim names for a well-formed body.
TextOf(j) ==
    IF HasTextBlock(j.content) THEN Text(FirstTextBlock(j.content).text)
    ELSE Text("")

(* C4: in non_stream_response, for every response with a 2xx status and a  *)
(* well-formed body, the result is the text of the first block of type     *)
(* text of the content list, and the empty string when there is none; it   *)
(* is never an error string.                                               *)
C4_FirstTextOn2xx ==
    (Called /\ remote.kind = "response" /\ remote.status \in 200..299
            /\ WellFormed(remote.json))
    => result = Res("str", TextOf(remote.json))

(* C5: when no API key is configured, pipe returns an error string for     *)
(* every request and makes no network call: no size probe, no POST, and no *)
(* generator is handed out that could make one later.                      *)
C5_NoKeyNoNetwork ==
    (Called /\ apiKey = "")
    => /\ result = Res("str", Msg("Error: ANTHROPIC_API_KEY not configured", 0, ""))
       /\ netlog = <<>>
       /\ gen = NoGen

C5_Witness ==
    /\ Called /\ apiKey = "" /\ StreamOf(body)
    /\ body.messages = OneMessage(0, <<ImageItem(RemoteUrl("https://img/small"))>>)
    /\ netlog = <<>>

\* The validation errors: MissingCredential, ImageTooLarge,
\* TotalImageSizeExceeded, InvalidModel.
IsValidationError(r) ==
    /\ r.shape = "str"
    /\ \/ r.val.fmt = "Error: ANTHROPIC_API_KEY not configured"
       \/ r.val.fmt = "Error: Invalid model format: {}"
       \/ /\ r.val.fmt = "Error: Failed to process image: {}"
          /\ r.val.text \in {"Image size exceeds 5MB limit",
                             "Image at URL exceeds 5MB limit",
                             "Total image size exceeds 100MB limit"}

(* C6 as stated: whenever pipe ends with a validation error, no network    *)
(* call at all has been made during that call, and the result is a single  *)
(* text.                                                                   *)
C6_NoNetworkBeforeValidationError ==
    IsValidationError(result) => netlog = <<>> /\ gen = NoGen

(* C6, amended: whenever pipe ends with a validation error, no POST to the *)
(* messages endpoint has been made and no payload was built (size probes   *)
(* of remote images may have been made), and the result is a single text,  *)
(* not a generator, also when the request asked for streaming.             *)
C6_NoPostBeforeValidationError ==
    IsValidationError(result)
    => ~Made("POST") /\ gen = NoGen /\ payload = NoPayload

C6_Witness ==
    /\ IsValidationError(result) /\ StreamOf(body) /\ apiKey # ""
    /\ result.val.text = "Image size exceeds 5MB limit"
    /\ netlog = <<"HEAD">>

---------------------------------------------------------------------------
(* C7: _extract_model_id gives, for a string with ".", exactly what        *)
(* follows the first "."; for a non-empty string without ".", the string;  *)
(* for the empty string, an invalid-model error.                           *)
C7_ExtractModelId ==
    model_id # NoModel
    => /\ model_string = <<>> => ~model_id.ok /\ model_id.exc = "ValueError"
       /\ (model_string # <<>> /\ \A i \in 1..Len(model_string) :
                                     model_string[i] # ".")
          => model_id.ok /\ model_id.val = model_string
       /\ (\E i \in 1..Len(model_string) : model_string[i] = ".")
          => /\ model_id.ok
             /\ \E i \in 1..Len(model_string) :
                    /\ model_string[i] = "."
                    /\ \A j \in 1..(i - 1) : model_string[j] # "."
                    /\ model_id.val = SubSeq(model_string, i + 1, Len(model_string))

C7_Witness ==
    /\ model_id.ok /\ Len(model_string) = 4
    /\ model_string[2] = "." /\ model_string[4] = "."
    /\ model_id.val = SubSeq(model_string, 3, 4)

\* An inline image: a data URI with its "," and, after it, the base64 payload.
IsInlineUrl(url) == Len(url) >= 2 /\ url[1].c \in DataHeads /\ url[2].c = ","

PayloadOf(url) == SubSeq(url, 3, Len(url))

(* C8: process_image on an inline image fails with ImageTooLarge when the  *)
(* decoded size, base64 length * 3/4, is above 5 MiB, and otherwise        *)
(* returns an image block whose data is the base64 payload of the input.   *)
C8_InlineLimit ==
    (image_block # NoImage /\ "image_url" \in image_data.keys
        /\ IsInlineUrl(image_data.url))
    => IF RunLen(PayloadOf(image_data.url)) * 3 > 5 * 1024 * 1024 * 4
       THEN /\ ~image_block.ok
            /\ image_block.msg = "Image size exceeds 5MB limit"
       ELSE /\ image_block.ok
            /\ image_block.block.type = "image"
            /\ image_block.block.source.type = "base64"
            /\ image_block.block.source.data = PayloadOf(image_data.url)

C8_Witness ==
    /\ image_block.ok /\ IsInlineUrl(image_data.url)
    /\ Len(PayloadOf(image_data.url)) = 2
    /\ RunLen(PayloadOf(image_data.url)) = InlineMaxLen
    /\ image_block.block.source.data = PayloadOf(image_data.url)

---------------------------------------------------------------------------
\* The base64 characters of the inline images of a request, over the
\* structured contents of its messages other than system messages.
IsInlineItem(item) ==
    /\ "type" \in item.keys /\ item.type = "image_url"
    /\ "image_url" \in item.keys /\ IsInlineUrl(item.url)

RECURSIVE ItemsInlineLen(_)
ItemsInlineLen(items) ==
    IF items = <<>> THEN 0
    ELSE (IF IsInlineItem(Head(items)) THEN RunLen(PayloadOf(Head(items).url))
          ELSE 0) + ItemsInlineLen(Tail(items))

RECURSIVE InlineLen(_)
InlineLen(messages) ==
    IF messages = <<>> THEN 0
    ELSE (IF Head(messages).role # "system" /\ Head(messages).isList
          THEN ItemsInlineLen(Head(messages).items) ELSE 0)
         + InlineLen(Tail(messages))

\* The decoded sizes sum to more than 100 MiB.
ExceedsTotal(messages) == InlineLen(messages) * 3 > 100 * 1024 * 1024 * 4

\* An item that passes on its own: it has its fields, an inline image is
\* within the per-image limit, a remote image passes its probe.
ItemPasses(item) ==
    /\ "type" \in item.keys
    /\ item.type = "text" => "text" \in item.keys
    /\ item.type = "image_url"
       => /\ "image_url" \in item.keys
          /\ IF IsInlineUrl(item.url)
             THEN RunLen(PayloadOf(item.url)) * 3 <= 5 * 1024 * 1024 * 4
             ELSE \/ HeadOf(item.url[1].c).exc # "none"
                  \/ /\ HeadOf(item.url[1].c).numeric
                     /\ HeadOf(item.url[1].c).length <= 5 * 1024 * 1024

AllItemsPass(messages) ==
    \A i \in 1..Len(messages) :
        (messages[i].role # "system" /\ messages[i].isList)
        => \A k \in 1..Len(messages[i].items) : ItemPasses(messages[i].items[k])

TotalExceededError ==
    Res("str", Msg("Error: Failed to process image: {}", 0,
                   "Total image size exceeds 100MB limit"))

(* C9 as stated (with the API key configured): for any request whose       *)
(* inline images sum to more than 100 MiB, pipe fails with                 *)
(* TotalImageSizeExceeded, and no payload is built or sent.                *)
C9_TotalExceededAlways ==
    (Called /\ apiKey # "" /\ ExceedsTotal(body.messages))
    => result = TotalExceededError /\ ~Made("POST") /\ payload = NoPayload

(* C9, amended: for any request whose inline images sum to more than 100   *)
(* MiB, no payload is built and no POST is made, now or later; the call    *)
(* fails with TotalImageSizeExceeded when the API key is configured and    *)
(* every item passes on its own, and otherwise it ends at that earlier     *)
(* failure.                                                                *)
C9_TotalExceededNoPost ==
    (Called /\ ExceedsTotal(body.messages))
    => /\ ~Made("POST") /\ payload = NoPayload /\ gen = NoGen
       /\ (apiKey # "" /\ AllItemsPass(body.messages))
          => result = TotalExceededError

C9_Witness ==
    /\ result = TotalExceededError /\ Len(body.messages) = 4
    /\ InlineLen(body.messages) = MaxBulk * InlineMaxLen + 14
    /\ StreamOf(body) /\ ~Made("POST")

---------------------------------------------------------------------------
\* The POST of this call failed: it raised, or the status is not 2xx.
PostFailed ==
    \/ remote.kind \in {"Timeout", "RequestException"}
    \/ remote.kind = "response" /\ remote.status \notin 200..299

\* Reading the feed failed at one of the lines taken so far.
ReadFailed ==
    /\ remote.kind = "response"
    /\ \E i \in 1..gen.pos : i <= Len(remote.feed) /\ remote.feed[i].raw = "raise"

ErrorFragments == {i \in 1..Len(emitted) : IsErrorFragment(emitted[i])}

(* C10: transport and remote errors (timeout, any other request failure,   *)
(* non-2xx status) never leave pipe, non_stream_response or the generator  *)
(* as an exception: without streaming the call returns one error text;     *)
(* with streaming the generator emits one error fragment, as its last      *)
(* element, and ends.                                                      *)
C10_TransportErrorsContained ==
    /\ gen.st # "raised"
    /\ (Made("POST") /\ gen = NoGen)
       => /\ result.shape = "str"
          /\ PostFailed => IsErrorFragment(result.val)
    /\ (Made("POST") /\ gen # NoGen /\ (PostFailed \/ ReadFailed))
       => /\ ErrorFragments = {Len(emitted)}
          /\ gen.st \in {"at_status", "at_error", "done", "closed"}

C10_Witness ==
    /\ gen.st = "done" /\ ReadFailed /\ body # NoBody
    /\ emitted = <<Text("a"), Msg("Error: Request timeout", 0, "")>>

---------------------------------------------------------------------------
\* A remote image item: an image_url item whose URL is not a data URI.
IsRemoteItem(item) ==
    /\ "type" \in item.keys /\ item.type = "image_url"
    /\ "image_url" \in item.keys /\ item.url # <<>>
    /\ item.url[1].c \in RemoteUrls

\* The probe succeeds and declares a length above 5 MiB.
ProbeDeclaresTooLarge(h) ==
    h.exc = "none" /\ h.hasLength /\ h.numeric /\ h.length > 5 * 1024 * 1024

\* A request that can only fail on a remote image's probe: the key is set,
\* the model resolves, and every item is a complete text item or a remote
\* image whose probe does not declare a length above the limit.
OnlyUnblockedRemotes(b) ==
    /\ "model" \in b.keys /\ b.model # <<>>
    /\ \A i \in 1..Len(b.messages) :
           (b.messages[i].role # "system" /\ b.messages[i].isList)
           => \A k \in 1..Len(b.messages[i].items) :
                  LET item == b.messages[i].items[k]
                  IN  \/ "type" \in item.keys /\ item.type = "text"
                         /\ "text" \in item.keys
                      \/ /\ IsRemoteItem(item)
                         /\ ~ProbeDeclaresTooLarge(HeadOf(item.url[1].c))

(* C11: for a remote image, a probe that fails or is inconclusive (request *)
(* error, timeout, content-length missing or not a number) never blocks    *)
(* the request: pipe goes on to build and send the payload; only a probe   *)
(* that succeeds and declares more than 5 MiB makes the request fail.      *)
C11_ProbeNeverBlocks ==
    (Called /\ apiKey # "" /\ OnlyUnblockedRemotes(body))
    => /\ payload # NoPayload
       /\ gen # NoGen \/ Made("POST")

(* C12: any failure while processing one content item (an image that fails *)
(* validation, an item without type, text or image_url) makes pipe end     *)
(* with an error text for the whole request: no exception leaves pipe and  *)
(* no payload is built or sent.                                            *)
C12_ItemFailureIsErrorValue ==
    (Called /\ apiKey # "" /\ ~AllItemsPass(body.messages))
    => /\ result.shape = "str"
       /\ result.val.fmt = "Error: Failed to process image: {}"
       /\ payload = NoPayload /\ gen = NoGen /\ ~Made("POST")

---------------------------------------------------------------------------
\* The POST gave a response: there is a connection to release.
Connected == Made("POST") /\ remote.kind = "response"

(* C13: on the streaming path the connection is released exactly once on   *)
(* every way out of the sequence (feed exhaustion, message-stop, non-2xx   *)
(* status, an error exit, the consumer stopping early), it stays open      *)
(* while the sequence is suspended inside the feed, and when the consumer  *)
(* stops, the lines read are those up to the last fragment handed out.     *)
C13_ReleasedOnce ==
    /\ gen.releases <= 1
    /\ gen.st \in {"active", "at_status"}
       => Connected /\ gen.conn = "open" /\ gen.releases = 0
    /\ (gen.st \in {"at_error", "done", "closed"} /\ Connected)
       => gen.conn = "released" /\ gen.releases = 1
    /\ (gen.st \in {"at_error", "done", "closed"} /\ ~Connected)
       => gen.conn = "none" /\ gen.releases = 0
    /\ (gen.st = "closed" /\ Connected /\ remote.status = 200
            /\ ErrorFragments = {})
       => /\ emitted = DeltaTexts(remote.feed, gen.pos)
          /\ gen.pos > 0 /\ IsDelta(remote.feed[gen.pos])

C13_Witness ==
    /\ gen.st = "closed" /\ Connected /\ remote.status = 200
    /\ Len(remote.feed) = 3 /\ gen.pos = 1 /\ gen.releases = 1
    /\ emitted = <<Text("a")>>

---------------------------------------------------------------------------
\* The POSTs to the messages endpoint made so far.
Posts == {i \in 1..Len(netlog) : netlog[i] = "POST"}

(* C14: every call of pipe issues at most one POST, streaming or not;      *)
(* after a failed attempt (timeout, transport failure, non-2xx status) no  *)
(* second POST is made and the failure is surfaced exactly once, as the    *)
(* error text returned or as the one error fragment of the sequence.       *)
C14_AtMostOnePost ==
    /\ Cardinality(Posts) <= 1
    /\ body # NoBody /\ payload = NoPayload => Posts = {}
    /\ (Posts # {} /\ PostFailed /\ gen = NoGen)
       => result.shape = "str" /\ IsErrorFragment(result.val)
    /\ (Posts # {} /\ PostFailed /\ gen # NoGen)
       => /\ Cardinality(ErrorFragments) = 1
          /\ Len(emitted) = 1
          /\ gen.st \in {"at_status", "at_error", "done", "closed"}

C14_Witness ==
    /\ gen.st = "done" /\ remote = PostRaises("Timeout")
    /\ netlog = <<"HEAD", "POST">>
    /\ emitted = <<Msg("Error: Request timeout", 0, "")>>

---------------------------------------------------------------------------
(* C15: with a consumer that keeps pulling, the streaming sequence, once   *)
(* created, always reaches Done for every finite feed (on message-stop, on *)
(* feed exhaustion or on an error), and Done is terminal: the sequence     *)
(* does not change and no fragment is emitted after it.                    *)
C15_ReachesDone ==
    /\ (gen.st = "created") ~> (gen.st = "done")
    /\ [][gen.st = "done" => UNCHANGED <<gen, emitted>>]_vars

C15_Witness ==
    /\ gen.st = "done" /\ remote.kind = "response" /\ remote.status = 200
    /\ FirstStop(remote.feed) > Len(remote.feed)
    /\ gen.pos = 3 /\ Len(emitted) = 3

---------------------------------------------------------------------------
\* The request has a system message.
HasSystem(b) == \E i \in 1..Len(b.messages) : b.messages[i].role = "system"

(* C16: the payload built by pipe has max_tokens and temperature equal to  *)
(* the caller's values, and to the configured defaults (4096 and 1.0) when *)
(* the caller omits them; it has the key stop_sequences only when the      *)
(* caller supplied stop, then with the caller's value and never empty, and *)
(* the key system exactly when the request has a system message; its       *)
(* stream field is the caller's stream flag, false when omitted.           *)
C16_PayloadFields ==
    payload # NoPayload
    => /\ {"model", "messages", "max_tokens", "temperature", "stream"}
              \subseteq payload.keys
       /\ payload.max_tokens = IF "max_tokens" \in body.keys THEN body.max_tokens
                               ELSE 4096
       /\ payload.temperature = IF "temperature" \in body.keys
                                THEN body.temperature ELSE "1.0"
       /\ "stop_sequences" \in payload.keys
          => /\ "stop" \in body.keys
             /\ payload.stop_sequences = body.stop
             /\ payload.stop_sequences # <<>>
       /\ "stop" \notin body.keys => "stop_sequences" \notin payload.keys
       /\ "system" \in payload.keys <=> HasSystem(body)
       /\ payload.stream = IF "stream" \in body.keys THEN body.stream ELSE FALSE

C16_Witness ==
    /\ payload # NoPayload /\ HasSystem(body) /\ "system" \in payload.keys
    /\ body.keys = {"model"} /\ body.stream
    /\ payload.max_tokens = 4096 /\ payload.temperature = "1.0"
    /\ ~payload.stream /\ "stop_sequences" \notin payload.keys

---------------------------------------------------------------------------
(* C18: every POST that pipe sends carries a non-empty model identifier:   *)
(* for every model string of the caller, either the request is rejected as *)
(* an invalid model before the POST, or the model field of the payload is  *)
(* a non-empty string.                                                     *)
C18_PostHasModel ==
    (body # NoBody /\ Made("POST"))
    => payload # NoPayload /\ payload.model # <<>>

---------------------------------------------------------------------------
(* C19: in every streaming sequence at most one error fragment is emitted, *)
(* and it is the last element: after it no text fragment and no second     *)
(* error fragment follows, also when deltas were emitted before it; and    *)
(* once it is emitted the sequence is at its end.                          *)
C19_OneErrorFragmentLast ==
    /\ Cardinality(ErrorFragments) <= 1
    /\ ErrorFragments \subseteq {Len(emitted)}
    /\ ErrorFragments # {}
       => gen.st \in {"at_status", "at_error", "done", "closed"}

C19_Witness ==
    /\ gen.st = "done" /\ Len(remote.feed) = 3 /\ gen.pos = 3
    /\ emitted = <<Text("a"), Text("b"), Msg("Error: {}", 0, "TypeError")>>

---------------------------------------------------------------------------
\* The block an input item becomes in the payload.
NotSystem(m) == m.role # "system"

IsTextItem(item) == "type" \in item.keys /\ item.type = "text"

IsImageItem(item) == "type" \in item.keys /\ item.type = "image_url"

BlockOf(item) ==
    IF IsTextItem(item)
    THEN [type |-> "text", text |-> item.text, source |-> NoSource]
    ELSE IF IsInlineUrl(item.url)
    THEN [type |-> "image", text |-> "",
          source |-> [type |-> "base64",
                      media_type |-> IF item.url[1].c = "data:image/png;base64"
                                     THEN "image/png" ELSE "image/jpeg",
                      data |-> PayloadOf(item.url), url |-> <<>>]]
    ELSE [type |-> "image", text |-> "",
          source |-> [type |-> "url", media_type |-> "", data |-> <<>>,
                      url |-> item.url]]

\* The blocks of the text and image items of a content list, in their order.
RECURSIVE BlocksOf(_)
BlocksOf(items) ==
    IF items = <<>> THEN <<>>
    ELSE IF IsTextItem(Head(items)) \/ IsImageItem(Head(items))
    THEN <<BlockOf(Head(items))>> \o BlocksOf(Tail(items))
    ELSE BlocksOf(Tail(items))

ContentOf(m) ==
    IF m.isList THEN BlocksOf(m.items)
    ELSE <<[type |-> "text", text |-> m.text, source |-> NoSource]>>

(* C20: in every payload that pipe sends, the messages list has one entry  *)
(* per non-system input message, in the input order and with the input     *)
(* role; the content blocks of each entry are the text and image items of  *)
(* the input message in their order; a plain string content is exactly one *)
(* text block; every block is of type text or image.                       *)
C20_PayloadMessages ==
    payload # NoPayload
    => LET ins == SelectSeq(body.messages, NotSystem)
       IN  /\ Len(payload.messages) = Len(ins)
           /\ \A i \in 1..Len(ins) :
                  /\ payload.messages[i].role = ins[i].role
                  /\ payload.messages[i].content = ContentOf(ins[i])
                  /\ \A k \in 1..Len(payload.messages[i].content) :
                         payload.messages[i].content[k].type \in {"text", "image"}

C20_Witness ==
    /\ payload # NoPayload /\ Made("POST")
    /\ Len(body.messages) = 4 /\ Len(payload.messages) = 3
    /\ payload.messages[2].content = <<[type |-> "text", text |-> "ok", source |-> NoSource]>>
    /\ Len(body.messages[4].items) = 2
    /\ Len(payload.messages[3].content) = 1
    /\ payload.messages[3].content[1].type = "image"

---------------------------------------------------------------------------
\* The base64 characters of the inline images a call has counted when it
\* runs alone: those of the messages before the current one and of the items
\* of the current message before the next one.
CountedAlone(c) ==
    InlineLen(SubSeq(c.messages, 1, c.mi - 1))
    + (IF c.pc = "items"
       THEN ItemsInlineLen(SubSeq(c.messages[c.mi].items, 1, c.ii - 1))
       ELSE 0)

(* C17: concurrent calls of pipe on the same Pipe object do not interfere: *)
(* under every interleaving of two calls, each call's running image-size   *)
(* total (while no item has failed), payload and result are those of the   *)
(* call running alone, and no call writes the object.                      *)
C17_CallsDoNotInterfere ==
    /\ self_attrs = NewPipe
    /\ \A c \in CallIds :
           /\ calls[c].pc = "returned"
              => calls[c].out = pipe(apiKey, calls[c].body, calls[c].remote)
           /\ (calls[c].pc = "messages" /\ calls[c].acc.st = "ok")
              => calls[c].acc.total = CountedAlone(calls[c])
           /\ (calls[c].pc = "items" /\ calls[c].cur.st = "ok")
              => calls[c].cur.total = CountedAlone(calls[c])

C17_Witness ==
    /\ calls[1].pc = "returned" /\ calls[2].pc = "items" /\ calls[2].ii = 5
    /\ calls[1].out.payload # NoPayload
    /\ Len(calls[1].out.payload.messages[1].content) = MaxBulk + 1
    /\ calls[1].body = calls[2].body

=============================================================================
